---- MODULE Spec2Model ----
(***************************************************************************)
(* qSticky (src/qsticky.py): PortManager keeps qBittorrent's listen port   *)
(* equal to the port Gluetun forwards.  Three asyncio tasks share one      *)
(* event loop: main(), the watch_port() task and the shutdown() task a     *)
(* signal creates.  A task runs from one await to the next without         *)
(* interruption, so every action below is "resume at the await the task    *)
(* is suspended at, with the result of that await, and run to the next     *)
(* await".                                                                 *)
(***************************************************************************)
EXTENDS Integers, Sequences, FiniteSets, TLC

\* ---------------------------------------------------------------- bounds
\* Number of cycles (runs of handle_port_change) the watcher may start.
MaxCycles == 2

\* ------------------------------------------------------------- constants
\* A ceiling one too high.
MoreAttempts == 3 + 1
max_attempts == 3
base_delay == 2
MinPort == 1024
MaxPort == 65535

\* Python's None for an Optional[int] / Optional[datetime].
None == -1
NoTime == 0

\* Ports the gateway may report in {"port": p}; 80 and 70000 are outside
\* [1024, 65535], 0 is falsy.
GatewayPorts == {0, 80, 51000, 55123, 70000}
\* listen_port values qBittorrent may start with.
QbitPorts == {0, 51000}
AuthTypes == {"basic", "apikey", "invalid"}

VARIABLES
  \* Settings
  auth_type,
  \* PortManager fields
  current_port, healthy, last_error, last_port_change, first_run,
  last_login_failed, session, shutdown_event,
  \* the file at self.health_file
  health_file,
  \* watch_port task: the await it is suspended at, and its locals
  pc, new_port, current_qbit_port, attempt,
  \* what the last _login() of the cycle came to
  loginResult,
  \* main() and the shutdown() task
  mainPc, shutPc, cancelRequested,
  \* qBittorrent's real listen_port
  qbitPort,
  \* history of the running (or last) cycle
  cycle, healthWrites, qbitReqs, gwLog, delays, fetched, upd, outcome,
  \* history of the process
  fileDeleted, lateWrite

vars == <<auth_type, current_port, healthy, last_error, last_port_change,
          first_run, last_login_failed, session, shutdown_event, health_file,
          pc, new_port, current_qbit_port, attempt, mainPc, shutPc, cancelRequested, qbitPort,
          cycle, healthWrites, qbitReqs, gwLog, delays, fetched, upd, outcome,
          fileDeleted, lateWrite, loginResult>>

settingsVars == <<auth_type>>
taskVars == <<mainPc, shutPc, cancelRequested, shutdown_event, fileDeleted>>
gwVars == <<gwLog, delays, attempt>>
healthVars == <<health_file, healthWrites, lateWrite, first_run>>
localVars == <<new_port, current_qbit_port, fetched, upd>>
statusVars == <<healthy, last_error, current_port, last_port_change,
                last_login_failed>>

\* ------------------------------------------------------- pure operators

NoFile == [exists |-> FALSE, healthy |-> FALSE, gluetun_connected |-> FALSE,
           port |-> None, qbit_connected |-> FALSE, port_synced |-> FALSE,
           last_port_change |-> NoTime]

\* get_health(): the dictionary written to the health file.
get_health(h, cp, lpc) ==
  [exists |-> TRUE, healthy |-> h, gluetun_connected |-> h, port |-> cp,
   qbit_connected |-> (h /\ cp # None), port_synced |-> (cp # None),
   last_port_change |-> lpc]

\* `not new_port`: None and 0 are falsy.
NotPortMut(p) == p = 0
NotPortNoneMut(p) == p = None
NotPort(p) == p = None \/ p = 0

\* The validation at the head of _update_port.
ValidPortMut(p) == p >= MinPort
ValidPort(p) == p >= MinPort /\ p <= MaxPort

\* `current_qbit_port != new_port`
PortChangeNeededMut(cur, new) == TRUE
PortChangeNeverMut(cur, new) == FALSE
PortChangeNeeded(cur, new) == cur # new

\* headers / auth chosen from gluetun_auth_type for the new endpoint.
Credentials(t) ==
  IF t = "basic" THEN [headers |-> "none", auth |-> "BasicAuth"]
  ELSE [headers |-> "X-API-Key", auth |-> "none"]

\* headers / auth passed to the legacy endpoint: the same objects.
LegacyCredentials(t) == Credentials(t)

\* The status of the new endpoint on which the legacy endpoint is tried.
FallbackStatusMut(s) == s = 401 \/ s = 500
FallbackStatus(s) == s = 401

\* _login() returns True: the post did not raise ("error") and
\* response.status == 200 ("ok"; "denied" is any other status).
LoginSucceededMut(r) == r # "error"
LoginSucceeded(r) == r = "ok"

\* delay = base_delay * (attempt + 1)
RetryDelay(a) == base_delay * (a + 1)

\* `finally: self.session = None` (line 339), after the async with has
\* closed the session of the cycle.
ReleaseSessionMut(s) == s
ReleaseSession(s) == "None"

\* os.remove(self.health_file) in cleanup().
RemoveFileMut(f) == f
RemoveFile(f) == NoFile

\* A gateway response: a transport error, or a status with a body.  Bodies:
\* "port" ({"port": p}), "noport" (an object without "port"), "malformed"
\* (not JSON), "nonobject" (JSON that is no object: data.get raises).
GwResponses ==
  {[kind |-> "error", status |-> 0, body |-> "none", port |-> None]}
  \cup {[kind |-> "http", status |-> s, body |-> "none", port |-> None] :
          s \in {401, 500}}
  \cup {[kind |-> "http", status |-> 200, body |-> b, port |-> None] :
          b \in {"noport", "malformed", "nonobject"}}
  \cup {[kind |-> "http", status |-> 200, body |-> "port", port |-> p] :
          p \in GatewayPorts}

\* No call of _update_port in this cycle yet.
NoUpdate == [called |-> FALSE, port |-> None, sessionOpen |-> FALSE]

\* ------------------------------------------------------------------ Init

Init ==
  /\ auth_type \in AuthTypes
  /\ current_port = None
  /\ healthy = TRUE
  /\ last_error = "None"
  /\ last_port_change = NoTime
  /\ first_run = TRUE
  /\ last_login_failed = FALSE
  /\ session = "None"
  /\ shutdown_event = FALSE
  /\ health_file = NoFile
  /\ pc = "start"
  /\ new_port = None
  /\ current_qbit_port = None
  /\ attempt = 0
  /\ mainPc = "wait"
  /\ shutPc = "none"
  /\ cancelRequested = FALSE
  /\ qbitPort \in QbitPorts
  /\ cycle = 0
  /\ healthWrites = 0
  /\ qbitReqs = <<>>
  /\ gwLog = <<>>
  /\ delays = <<>>
  /\ fetched = "pending"
  /\ upd = NoUpdate
  /\ outcome = "none"
  /\ fileDeleted = FALSE
  /\ lateWrite = FALSE
  /\ loginResult = "none"


\* ------------------------------------------------- helpers of the cycle

\* The response r is recorded on the request in flight.
SetLast(log, r) ==
  [log EXCEPT ![Len(log)].status = IF r.kind = "error" THEN None ELSE r.status,
              ![Len(log)].port = r.port]

InCycle == pc \in {"gw_new", "gw_legacy", "gw_sleep", "login", "prefs",
                   "setprefs", "verify1", "verify2"}

\* update_health_file(): one snapshot from get_health(), then the write,
\* whose failure (open or dump raising) is logged and leaves the file as
\* it was.
update_health_file(hw) ==
  /\ healthWrites' = hw + 1
  /\ lateWrite' = (lateWrite \/ fileDeleted)
  /\ \E ok \in BOOLEAN :
       health_file' = IF ok
                      THEN get_health(healthy', current_port', last_port_change')
                      ELSE health_file

\* The cycle suspends at the await `label`.
Await(label, sess, hw) ==
  /\ pc' = label
  /\ session' = sess
  /\ outcome' = "running"
  /\ healthWrites' = hw
  /\ UNCHANGED <<health_file, lateWrite, first_run>>

\* handle_port_change returns: with rec, through update_health_file and
\* first_run = False (lines 331-332); without, by an early return.  The
\* finally clause drops the session and watch_port sleeps check_interval.
EndCycle(out, rec, hw) ==
  /\ session' = ReleaseSession(session)
  /\ pc' = "sleep"
  /\ outcome' = out
  /\ IF rec
     THEN update_health_file(hw) /\ first_run' = FALSE
     ELSE healthWrites' = hw /\ UNCHANGED <<health_file, lateWrite, first_run>>

\* _login() is called (line 300).  On a closed session the post raises,
\* _login returns False and the cycle returns with healthy = False.
Login(sess, reqs, hw) ==
  IF sess = "open"
  THEN /\ qbitReqs' = Append(reqs, "login")
       /\ loginResult' = "pending"
       /\ UNCHANGED statusVars
       /\ Await("login", sess, hw)
  ELSE /\ qbitReqs' = reqs
       /\ loginResult' = "error"
       /\ healthy' = FALSE
       /\ UNCHANGED <<last_error, current_port, last_port_change,
                      last_login_failed>>
       /\ EndCycle("login_fail", FALSE, hw)

\* _get_forwarded_port() returned p: lines 295-300.
FetchReturn(p, sess, reqs, hw) ==
  /\ new_port' = p
  /\ current_qbit_port' = None
  /\ fetched' = IF p = None THEN "none" ELSE "port"
  /\ upd' = NoUpdate
  /\ IF NotPort(p)
     THEN /\ qbitReqs' = reqs
          /\ loginResult' = "none"
          /\ healthy' = FALSE
          /\ UNCHANGED <<last_error, current_port, last_port_change,
                         last_login_failed>>
          /\ EndCycle("gw_fail", FALSE, hw)
     ELSE Login(sess, reqs, hw)

\* One pass of the for loop of _get_forwarded_port up to its first await:
\* an unknown auth type returns None, otherwise GET /v1/portforward is sent.
StartAttempt(a, log, dl, sess, reqs, hw) ==
  /\ attempt' = a
  /\ delays' = dl
  /\ IF auth_type \notin {"basic", "apikey"}
     THEN gwLog' = log /\ FetchReturn(None, sess, reqs, hw)
     ELSE /\ gwLog' = Append(log, [ep |-> "new", cred |-> Credentials(auth_type),
                                   status |-> 0, port |-> None])
          /\ new_port' = None
          /\ current_qbit_port' = None
          /\ fetched' = "pending"
          /\ upd' = NoUpdate
          /\ loginResult' = "none"
          /\ qbitReqs' = reqs
          /\ UNCHANGED statusVars
          /\ Await("gw_new", sess, hw)

\* except Exception (line 274): the delay is computed and slept.
Backoff(log) ==
  /\ gwLog' = log
  /\ delays' = Append(delays, RetryDelay(attempt))
  /\ attempt' = attempt
  /\ UNCHANGED <<localVars, loginResult, qbitReqs, statusVars>>
  /\ Await("gw_sleep", session, healthWrites)

\* A 200 response is parsed (lines 243-250 and 260-267).
ParseBody(r, log) ==
  IF r.body = "nonobject"
  THEN Backoff(log)
  ELSE /\ gwLog' = log
       /\ UNCHANGED <<delays, attempt>>
       /\ FetchReturn(IF r.body = "port" THEN r.port ELSE None,
                      session, qbitReqs, healthWrites)

\* ------------------------------------------------ the watch_port task

\* while not shutdown_event.is_set(): handle_port_change() starts, as the
\* cycle numbered c.
BeginCycleAt(c) ==
  /\ ~cancelRequested
  /\ pc \in {"start", "sleep"}
  /\ ~shutdown_event
  /\ cycle' = c
  /\ StartAttempt(0, <<>>, <<>>, "open", <<>>, 0)
  /\ UNCHANGED <<settingsVars, taskVars, qbitPort>>

BeginCycle ==
  /\ cycle < MaxCycles
  /\ BeginCycleAt(cycle + 1)

\* handle_port_change raises before its try (lines 284-292 build the TLS
\* context, the connector and the session).  `caught` says whether the
\* except clause of watch_port (lines 422-426) is there to take it: it sets
\* healthy and last_error and sleeps 5 seconds; without it the task ends.
SetupRaises(caught) ==
  /\ ~cancelRequested
  /\ pc \in {"start", "sleep"}
  /\ ~shutdown_event
  /\ cycle < MaxCycles
  /\ cycle' = cycle + 1
  /\ pc' = IF caught THEN "sleep" ELSE "done"
  /\ healthy' = IF caught THEN FALSE ELSE healthy
  /\ last_error' = IF caught THEN "Watch error" ELSE last_error
  /\ outcome' = "exception"
  /\ healthWrites' = 0
  /\ qbitReqs' = <<>>
  /\ gwLog' = <<>>
  /\ delays' = <<>>
  /\ attempt' = 0
  /\ new_port' = None
  /\ current_qbit_port' = None
  /\ fetched' = "pending"
  /\ upd' = NoUpdate
  /\ loginResult' = "none"
  /\ UNCHANGED <<settingsVars, taskVars, qbitPort, session, current_port,
                 last_port_change, last_login_failed, health_file, lateWrite,
                 first_run>>

CycleRaisesMut == SetupRaises(FALSE)
\* An exception out of handle_port_change is caught by watch_port.
CycleRaises == SetupRaises(TRUE)

\* The loop condition fails: watch_port returns.
WatchExit ==
  /\ ~cancelRequested
  /\ pc \in {"start", "sleep"}
  /\ shutdown_event
  /\ pc' = "done"
  /\ UNCHANGED <<loginResult, settingsVars, taskVars, qbitPort, cycle, gwVars, statusVars,
                 healthVars, session, localVars, qbitReqs, outcome>>

\* The response of GET /v1/portforward arrives (lines 240-273).
GwNewResponse ==
  /\ ~cancelRequested
  /\ pc = "gw_new"
  /\ \E r \in GwResponses :
       LET log == SetLast(gwLog, r) IN
       IF r.kind = "error" THEN Backoff(log)
       ELSE IF r.status = 200 THEN ParseBody(r, log)
       ELSE IF FallbackStatus(r.status)
       THEN /\ gwLog' = Append(log, [ep |-> "legacy",
                                     cred |-> LegacyCredentials(auth_type),
                                     status |-> 0, port |-> None])
            /\ UNCHANGED <<delays, attempt, localVars, loginResult, qbitReqs,
                           statusVars>>
            /\ Await("gw_legacy", session, healthWrites)
       ELSE /\ gwLog' = log
            /\ UNCHANGED <<delays, attempt>>
            /\ FetchReturn(None, session, qbitReqs, healthWrites)
  /\ UNCHANGED <<settingsVars, taskVars, qbitPort, cycle>>

\* The response of GET /v1/openvpn/portforwarded arrives (lines 259-270).
GwLegacyResponse ==
  /\ ~cancelRequested
  /\ pc = "gw_legacy"
  /\ \E r \in GwResponses :
       LET log == SetLast(gwLog, r) IN
       IF r.kind = "error" THEN Backoff(log)
       ELSE IF r.status = 200 THEN ParseBody(r, log)
       ELSE /\ gwLog' = log
            /\ UNCHANGED <<delays, attempt>>
            /\ FetchReturn(None, session, qbitReqs, healthWrites)
  /\ UNCHANGED <<settingsVars, taskVars, qbitPort, cycle>>

\* asyncio.sleep(delay) ends: the next pass of the for loop, or line 279.
GwSleepWake ==
  /\ ~cancelRequested
  /\ pc = "gw_sleep"
  /\ IF attempt + 1 < max_attempts
     THEN StartAttempt(attempt + 1, gwLog, delays, session, qbitReqs, healthWrites)
     ELSE /\ UNCHANGED gwVars
          /\ FetchReturn(None, session, qbitReqs, healthWrites)
  /\ UNCHANGED <<settingsVars, taskVars, qbitPort, cycle>>

\* The response of POST /api/v2/auth/login arrives (lines 166-180), then
\* lines 300-304.
LoginResponse ==
  /\ ~cancelRequested
  /\ pc = "login"
  /\ \E r \in {"ok", "denied", "error"} :
       /\ loginResult' = r
       /\ IF LoginSucceeded(r)
          THEN
            /\ last_login_failed' =
                 IF first_run \/ last_login_failed THEN FALSE ELSE last_login_failed
            /\ UNCHANGED <<last_error, current_port, last_port_change>>
            /\ IF session = "open"
               THEN /\ healthy' = TRUE
                    /\ qbitReqs' = Append(qbitReqs, "read")
                    /\ Await("prefs", session, healthWrites)
               ELSE /\ healthy' = FALSE
                    /\ qbitReqs' = qbitReqs
                    /\ EndCycle("read_fail", FALSE, healthWrites)
          ELSE
            /\ healthy' = FALSE
            /\ last_error' = IF r = "denied" THEN "Login failed" ELSE last_error
            /\ last_login_failed' = IF r = "denied" THEN TRUE ELSE last_login_failed
            /\ UNCHANGED <<current_port, last_port_change, qbitReqs>>
            /\ EndCycle("login_fail", FALSE, healthWrites)
  /\ UNCHANGED <<settingsVars, taskVars, qbitPort, cycle, gwVars, localVars>>

\* _update_port(new_port) up to its first await (lines 183-191).
UpdatePortCall ==
  /\ upd' = [called |-> TRUE, port |-> new_port, sessionOpen |-> session = "open"]
  /\ IF ~ValidPort(new_port)
     THEN qbitReqs' = qbitReqs /\ EndCycle("invalid_port", TRUE, healthWrites)
     ELSE IF session # "open"
     THEN qbitReqs' = qbitReqs /\ EndCycle("write_fail", TRUE, healthWrites)
     ELSE /\ qbitReqs' = Append(qbitReqs, "write")
          /\ Await("setprefs", session, healthWrites)

\* The preferences arrive (get_current_qbit_port), then lines 305-329.
PrefsResponse ==
  /\ ~cancelRequested
  /\ pc = "prefs"
  /\ \E v \in {None, qbitPort} :
       /\ current_qbit_port' = v
       /\ IF v = None
          THEN /\ healthy' = FALSE
               /\ UNCHANGED <<last_error, current_port, last_port_change,
                              last_login_failed, qbitReqs, upd>>
               /\ EndCycle("read_fail", FALSE, healthWrites)
          ELSE /\ healthy' = TRUE
               /\ UNCHANGED <<last_error, last_port_change, last_login_failed>>
               /\ IF PortChangeNeeded(v, new_port)
                  THEN current_port' = new_port /\ UpdatePortCall
                  ELSE /\ current_port' = v
                       /\ UNCHANGED <<qbitReqs, upd>>
                       /\ EndCycle("nochange", TRUE, healthWrites)
  /\ UNCHANGED <<loginResult, settingsVars, taskVars, qbitPort, cycle, gwVars, new_port,
                 fetched>>

\* The response of POST /api/v2/app/setPreferences arrives (lines 192-206).
\* qBittorrent may or may not have taken the new value.
WriteResponse ==
  /\ ~cancelRequested
  /\ pc = "setprefs"
  /\ \E r \in {"ok", "rejected", "error"} : \E applied \in BOOLEAN :
       /\ r = "rejected" => ~applied
       /\ qbitPort' = IF applied THEN new_port ELSE qbitPort
       /\ UNCHANGED statusVars
       /\ IF r = "ok"
          THEN IF session = "open"
               THEN /\ qbitReqs' = Append(qbitReqs, "read")
                    /\ Await("verify1", session, healthWrites)
               ELSE /\ qbitReqs' = qbitReqs
                    /\ EndCycle("readback_fail", TRUE, healthWrites)
          ELSE /\ qbitReqs' = qbitReqs
               /\ EndCycle("write_fail", TRUE, healthWrites)
  /\ UNCHANGED <<loginResult, settingsVars, taskVars, cycle, gwVars, localVars>>

\* The read-back of _update_port arrives (lines 193-200), then lines
\* 314-316.  Time is counted in cycles: datetime.now() is `cycle`.
Verify1Response ==
  /\ ~cancelRequested
  /\ pc = "verify1"
  /\ \E v \in {None, qbitPort} :
       IF v = new_port
       THEN /\ current_port' = new_port
            /\ last_port_change' = cycle
            /\ UNCHANGED last_login_failed
            /\ IF session = "open"
               THEN /\ qbitReqs' = Append(qbitReqs, "read")
                    /\ UNCHANGED <<healthy, last_error>>
                    /\ Await("verify2", session, healthWrites)
               ELSE /\ qbitReqs' = qbitReqs
                    /\ healthy' = FALSE
                    /\ last_error' = "Port change verification failed"
                    /\ EndCycle("verify_fail", TRUE, healthWrites)
       ELSE /\ UNCHANGED <<statusVars, qbitReqs>>
            /\ EndCycle("readback_fail", TRUE, healthWrites)
  /\ UNCHANGED <<loginResult, settingsVars, taskVars, qbitPort, cycle, gwVars, localVars>>

\* The second read-back arrives (lines 316-323), then lines 331-332.
Verify2Response ==
  /\ ~cancelRequested
  /\ pc = "verify2"
  /\ \E v \in {None, qbitPort} :
       /\ UNCHANGED <<last_port_change, last_login_failed, qbitReqs>>
       /\ IF v = new_port
          THEN /\ current_port' = new_port
               /\ UNCHANGED <<healthy, last_error>>
               /\ EndCycle("success", TRUE, healthWrites)
          ELSE /\ healthy' = FALSE
               /\ last_error' = "Port change verification failed"
               /\ UNCHANGED current_port
               /\ EndCycle("verify_fail", TRUE, healthWrites)
  /\ UNCHANGED <<loginResult, settingsVars, taskVars, qbitPort, cycle, gwVars, localVars>>

\* task.cancel() takes effect at the await the task is suspended at:
\* CancelledError is no Exception, so only the finally clause (line 339)
\* runs and the task ends.  A task not yet started never runs.
WatchCancelled ==
  /\ cancelRequested
  /\ pc # "done"
  /\ pc' = "done"
  /\ cancelRequested' = FALSE
  /\ session' = IF InCycle THEN ReleaseSession(session) ELSE session
  /\ outcome' = IF InCycle THEN "cancelled" ELSE outcome
  /\ UNCHANGED <<loginResult, settingsVars, mainPc, shutPc, shutdown_event, fileDeleted,
                 qbitPort, cycle, gwVars, statusVars, healthVars, localVars, qbitReqs>>

\* ------------------------------------------- signals, shutdown(), main()

\* SIGTERM or SIGINT: the handler creates the shutdown() task.
Signal ==
  /\ shutPc = "none"
  /\ mainPc # "done"
  /\ shutPc' = "start"
  /\ UNCHANGED <<loginResult, settingsVars, mainPc, cancelRequested, shutdown_event,
                 fileDeleted, qbitPort, cycle, gwVars, statusVars, healthVars,
                 session, pc, localVars, qbitReqs, outcome>>

\* shutdown() up to `await self.session.close()` (lines 447-450).
ShutdownRun ==
  /\ shutPc = "start"
  /\ mainPc # "done"
  /\ shutdown_event' = TRUE
  /\ IF session # "None"
     THEN session' = "closed" /\ shutPc' = "closing"
     ELSE session' = session /\ shutPc' = "done"
  /\ UNCHANGED <<loginResult, settingsVars, mainPc, cancelRequested, fileDeleted, qbitPort,
                 cycle, gwVars, statusVars, healthVars, pc, localVars, qbitReqs, outcome>>

\* session.close() returns: "Shutdown complete".
ShutdownFinish ==
  /\ shutPc = "closing"
  /\ mainPc # "done"
  /\ shutPc' = "done"
  /\ UNCHANGED <<loginResult, settingsVars, mainPc, cancelRequested, shutdown_event,
                 fileDeleted, qbitPort, cycle, gwVars, statusVars, healthVars,
                 session, pc, localVars, qbitReqs, outcome>>

\* main(): shutdown_event.wait() returns; every task is cancelled and
\* gather is awaited (lines 460-463).
MainCancel ==
  /\ mainPc = "wait"
  /\ shutdown_event
  /\ mainPc' = "gather"
  /\ cancelRequested' = (pc # "done")
  /\ UNCHANGED <<loginResult, settingsVars, shutPc, shutdown_event, fileDeleted, qbitPort,
                 cycle, gwVars, statusVars, healthVars, session, pc, localVars, qbitReqs, outcome>>

\* gather returns once the watch_port task is done; cleanup() runs
\* (lines 428-436).
MainCleanup ==
  /\ mainPc = "gather"
  /\ pc = "done"
  /\ mainPc' = "done"
  /\ session' = IF session # "None" THEN "closed" ELSE session
  /\ health_file' = IF health_file.exists THEN RemoveFile(health_file)
                    ELSE health_file
  /\ fileDeleted' = (fileDeleted \/ health_file.exists)
  /\ UNCHANGED <<loginResult, settingsVars, shutPc, cancelRequested, shutdown_event, qbitPort,
                 cycle, gwVars, statusVars, healthWrites, lateWrite, first_run,
                 pc, localVars, qbitReqs, outcome>>

Next ==
  \/ BeginCycle
  \/ CycleRaises
  \/ WatchExit
  \/ GwNewResponse
  \/ GwLegacyResponse
  \/ GwSleepWake
  \/ LoginResponse
  \/ PrefsResponse
  \/ WriteResponse
  \/ Verify1Response
  \/ Verify2Response
  \/ WatchCancelled
  \/ Signal
  \/ ShutdownRun
  \/ ShutdownFinish
  \/ MainCancel
  \/ MainCleanup

Spec == Init /\ [][Next]_vars


\* ----------------------------------------------------------- the claims

\* A request of this kind went to qBittorrent in the running (last) cycle.
Sent(kind) == \E i \in 1..Len(qbitReqs) : qbitReqs[i] = kind

\* A cycle has run to its end and the watcher sleeps until the next one.
CycleEnded == pc = "sleep" /\ cycle > 0

\* The cycles in which the gateway gave a port and the login and the
\* preference read both succeeded.
UpstreamOk == {"nochange", "invalid_port", "write_fail", "readback_fail",
               "verify_fail", "success"}

\* C1: every cycle that has ended invoked update_health_file exactly once,
\* whichever step it ended in (stated for a recognised auth type, so that
\* a gateway failure is an answer of the gateway).
C1_OneRecordPerCycle ==
  (CycleEnded /\ auth_type \in {"basic", "apikey"} /\ outcome # "exception")
    => healthWrites = 1

\* C2: once a cycle has ended and the health file exists, the file says
\* healthy only if in that cycle the gateway returned a port and the login
\* and the preference read succeeded.
C2_FileReflectsLastCycle ==
  (CycleEnded /\ health_file.exists /\ health_file.healthy
     /\ outcome # "exception")
    => outcome \in UpstreamOk

\* C3: when the gateway fetch has failed (returned no port), healthy is
\* false and no request was sent to qBittorrent in that cycle.
C3_GatewayFailure ==
  fetched = "none" => (~healthy /\ qbitReqs = <<>>)

\* C3 witness: a cycle ended after all three transport attempts failed.
C3_Witness ==
  CycleEnded /\ fetched = "none" /\ Len(delays) = max_attempts /\ ~healthy

\* C4: in a cycle where the port read from qBittorrent equals the
\* forwarded port, no setPreferences request is sent.
C4_NoWriteWhenEqual ==
  (fetched = "port" /\ current_qbit_port # None /\ current_qbit_port = new_port)
    => ~Sent("write")

\* C4 witness: the second cycle finds the port the first cycle has set.
C4_Witness ==
  /\ CycleEnded /\ cycle = 2 /\ last_port_change = 1
  /\ current_qbit_port = new_port /\ new_port = 55123 /\ ~Sent("write")

\* C5: with no shutdown signal, a setPreferences write that returned 200
\* is followed by a read, and when the read-back differs from the requested
\* port (or cannot be read) the cycle ends with healthy false.
C5_ReadBackFailureReported ==
  (CycleEnded /\ shutPc = "none"
     /\ outcome \in {"readback_fail", "verify_fail", "success"})
    => /\ \E i \in 1..(Len(qbitReqs) - 1) :
            qbitReqs[i] = "write" /\ qbitReqs[i + 1] = "read"
       /\ outcome \in {"readback_fail", "verify_fail"} => ~healthy

\* C6: with no shutdown signal, when a port change is needed and the write
\* fails (rejected by validation, non-200, transport error) the cycle ends
\* with healthy false and last_error set.
C6_WriteFailureReported ==
  (CycleEnded /\ shutPc = "none" /\ outcome \in {"invalid_port", "write_fail"})
    => (~healthy /\ last_error # "None")

\* C7: _update_port called with a port outside [1024, 65535] returns
\* failure (the cycle ends as after a failed write, nothing sent) and sends
\* no setPreferences request; called with a port
\* inside the range on a usable session it sends the request.
C7_PortValidation ==
  upd.called =>
    IF upd.port < 1024 \/ upd.port > 65535
    THEN ~Sent("write") /\ outcome = "invalid_port"
    ELSE upd.sessionOpen => Sent("write")

\* C7 witness: both 80 and 70000 are rejected; here one of them was.
C7_Witness ==
  /\ upd.called /\ upd.port \in {80, 70000} /\ CycleEnded
  /\ qbitReqs = <<"login", "read">>

\* C8: the legacy endpoint is asked only right after a 401 of the new
\* endpoint, with the credentials of that request; every 401 of the new
\* endpoint is followed by one legacy request; and a legacy 200 carrying a
\* port makes the fetch return that port.
C8_LegacyFallback ==
  /\ \A i \in 1..Len(gwLog) :
       /\ gwLog[i].ep = "legacy" =>
            /\ i > 1
            /\ gwLog[i - 1].ep = "new"
            /\ gwLog[i - 1].status = 401
            /\ gwLog[i].cred = gwLog[i - 1].cred
       /\ (gwLog[i].ep = "new" /\ gwLog[i].status = 401) =>
            (i < Len(gwLog) /\ gwLog[i + 1].ep = "legacy")
  /\ (/\ gwLog # <<>>
      /\ gwLog[Len(gwLog)].ep = "legacy"
      /\ gwLog[Len(gwLog)].status = 200
      /\ gwLog[Len(gwLog)].port # None)
       => (fetched = "port" /\ new_port = gwLog[Len(gwLog)].port)

\* C8 witness: a 401, then the legacy endpoint answers 200 with 55123.
C8_Witness ==
  /\ Len(gwLog) = 2
  /\ gwLog[1].status = 401
  /\ gwLog[2].ep = "legacy" /\ gwLog[2].status = 200 /\ gwLog[2].port = 55123
  /\ new_port = 55123

\* C9: after a cycle that changed the port to P and verified it, healthy
\* is true, current_port is P, last_port_change lies in that cycle and
\* last_error is None, whatever earlier cycles recorded.
C9_SuccessSnapshot ==
  (CycleEnded /\ outcome = "success")
    => /\ healthy
       /\ current_port = new_port
       /\ last_port_change = cycle
       /\ last_error = "None"

C11_NoCycleInterrupted == outcome # "cancelled"

\* C12: shutdown() never closes the session while a cycle is using it.
C12_SessionNotClosedInCycle == ~(InCycle /\ session = "closed")

\* C13: as long as no shutdown is requested, no outcome of a cycle ends the
\* watch_port task: after every cycle the loop sleeps, and from that sleep
\* the next cycle can start.
C13_LoopSurvives ==
  shutPc = "none" =>
    /\ pc # "done"
    /\ (pc = "sleep" /\ cycle < MaxCycles) => ENABLED BeginCycle

\* C13 witness: a cycle ended by an exception, the next one is running.
C13_Witness ==
  /\ shutPc = "none" /\ cycle = 2 /\ pc = "login"
  /\ last_error = "Watch error"

\* C14: the gateway fetch sends at most 3 requests to the new endpoint, one
\* at a time, each retry only after the attempt before it failed and its
\* delay was slept; after the third failure it returns no port to the
\* cycle, which ends as a gateway failure.
C14_BoundedRetries ==
  LET n == Cardinality({i \in 1..Len(gwLog) : gwLog[i].ep = "new"}) IN
  /\ n <= 3
  /\ \A i \in 1..Len(gwLog) : gwLog[i].status = 0 => i = Len(gwLog)
  /\ Len(delays) <= n
  /\ n <= Len(delays) + 1
  /\ (Len(delays) = 3 /\ pc # "gw_sleep" /\ outcome # "cancelled")
       => (fetched = "none" /\ outcome = "gw_fail")

\* C14 witness: three transport failures in a row, then the cycle ended.
C14_Witness ==
  /\ Len(gwLog) = 3
  /\ \A i \in 1..3 : gwLog[i].ep = "new" /\ gwLog[i].status = None
  /\ Len(delays) = 3
  /\ outcome = "gw_fail"

\* C15: with transport failures only, the delay slept after failed attempt
\* k is 2 * 2^(k-1): 2, 4, 8.
C15_DelaysDouble ==
  (\A i \in 1..Len(gwLog) : gwLog[i].status \in {None, 0})
    => \A k \in 1..Len(delays) : delays[k] = 2 * 2^(k - 1)

\* C16: where a snapshot is produced, current_port is None or a value that
\* was read from qBittorrent.  Stated for the first cycle, where the values
\* read so far are the ones read in this cycle: the preference read
\* (current_qbit_port) and, in a cycle that got as far as the second
\* verification, the read-back equal to new_port.
C16_SnapshotPortConfirmed ==
  (CycleEnded /\ cycle = 1 /\ healthWrites = 1 /\ shutPc = "none")
    => \/ current_port = None
       \/ current_port = current_qbit_port
       \/ outcome \in {"success", "verify_fail"}

\* C17: outside a cycle the manager holds no session, and the first request
\* a cycle sends to qBittorrent is its own login.
C17_SessionPerCycle ==
  /\ ~InCycle => session = "None"
  /\ qbitReqs # <<>> => qbitReqs[1] = "login"

\* C17 witness: the first cycle changed the port, the second has logged in
\* again on a new session.
C17_Witness ==
  /\ cycle = 2 /\ pc = "login" /\ session = "open"
  /\ qbitReqs = <<"login">> /\ last_port_change = 1

\* C18: when the login has failed (another status than 200, or the post
\* raised) the cycle has ended with healthy false, and neither a preference
\* read nor a setPreferences write was sent in it.
C18_LoginFailure ==
  loginResult \in {"denied", "error"}
    => /\ ~healthy
       /\ ~InCycle
       /\ ~Sent("read")
       /\ ~Sent("write")

\* C18 witness: the second cycle's login is denied after a first cycle that
\* had left healthy true.
C18_Witness ==
  /\ cycle = 2 /\ loginResult = "denied" /\ pc = "sleep"
  /\ qbitReqs = <<"login">> /\ health_file.healthy

\* A definitive failure answer of the gateway: a status other than 200 and
\* 401 from the new endpoint, a status other than 200 from the legacy
\* endpoint, or a 200 that yields no port.
DefinitiveFailure(e) ==
  /\ e.port = None
  /\ \/ e.ep = "new" /\ e.status \in {200, 500}
     \/ e.ep = "legacy" /\ e.status \in {200, 401, 500}

\* C19: a definitive failure answer ends the fetch: it is the last request
\* of the fetch and the fetch has returned no port.
C19_NoRetryAfterAnswer ==
  \A i \in 1..Len(gwLog) :
    DefinitiveFailure(gwLog[i]) => (i = Len(gwLog) /\ fetched = "none")

\* ------------------------------------------------ the loop left to run

\* The valid port the gateway settles on, one qBittorrent does not start
\* with.
GoodPort ==
  CHOOSE p \in GatewayPorts : p >= 1024 /\ p <= 65535 /\ p \notin QbitPorts

\* From cycle MaxCycles on the gateway answers 200 with GoodPort and
\* qBittorrent accepts the login, serves its preferences and applies
\* writes; the cycles before are as in Spec.
GoodStep ==
  /\ pc = "gw_new" => (fetched' = "port" /\ new_port' = GoodPort)
  /\ pc = "login" => loginResult' = "ok"
  /\ pc = "prefs" => current_qbit_port' = qbitPort
  /\ pc = "setprefs" => (pc' = "verify1" /\ qbitPort' = new_port)
  /\ pc = "verify1" => pc' = "verify2"
  /\ pc = "verify2" => outcome' = "success"

Good == cycle >= MaxCycles => GoodStep

\* The loop goes on for ever: the cycle number stops counting at MaxCycles.
LiveBeginCycle ==
  BeginCycleAt(IF cycle < MaxCycles THEN cycle + 1 ELSE cycle)

\* No signal arrives: only the watch_port task takes steps.
LiveNext ==
  \/ LiveBeginCycle
  \/ CycleRaises
  \/ GwNewResponse /\ Good
  \/ GwLegacyResponse /\ Good
  \/ GwSleepWake /\ Good
  \/ LoginResponse /\ Good
  \/ PrefsResponse /\ Good
  \/ WriteResponse /\ Good
  \/ Verify1Response /\ Good
  \/ Verify2Response /\ Good

\* The event loop resumes the task whenever its await has completed, and
\* every await completes (the requests carry timeouts, the sleeps end).
LiveInit ==
  /\ Init
  /\ auth_type \in {"basic", "apikey"}

LiveSpec ==
  /\ LiveInit
  /\ [][LiveNext]_vars
  /\ WF_vars(LiveNext)

\* C20: once the gateway keeps answering GoodPort and qBittorrent behaves,
\* qBittorrent's port becomes GoodPort and from then on no cycle writes:
\* each ends unchanged with healthy true and current_port = GoodPort.
C20_Convergence ==
  <>[](/\ qbitPort = GoodPort
       /\ ~Sent("write")
       /\ pc = "sleep" => (outcome = "nochange" /\ healthy
                           /\ current_port = GoodPort))

\* C20 witness: the port was changed in the well-behaved phase and a later
\* cycle found nothing to change.
C20_Witness ==
  /\ pc = "sleep" /\ outcome = "nochange" /\ cycle = MaxCycles
  /\ last_port_change = MaxCycles /\ qbitPort = GoodPort
  /\ healthy /\ current_port = GoodPort

\* ------------------------------------------------------- the port value 0

\* C21: a gateway answer of 200 with port 0 ends the cycle as an answer
\* without a port does: it is the last gateway request of the cycle (no
\* retry), healthy is false and no request goes to qBittorrent; whereas a
\* listen_port of 0 read from qBittorrent is a value: the cycle sets healthy
\* by the comparison, calls _update_port with the forwarded port and, when
\* that port is valid and the session is open, sends the write.
C21_ZeroPort ==
  /\ \A i \in 1..Len(gwLog) :
       (gwLog[i].status = 200 /\ gwLog[i].port = 0)
         => /\ i = Len(gwLog)
            /\ new_port = 0
            /\ ~healthy
            /\ qbitReqs = <<>>
            /\ ~InCycle
            /\ outcome = "gw_fail"
  /\ current_qbit_port = 0
       => /\ outcome # "read_fail"
          /\ new_port # 0
          /\ upd.called /\ upd.port = new_port
          /\ (ValidPort(new_port) /\ upd.sessionOpen) => Sent("write")

\* C21 witness: after a cycle that changed the port, the gateway answers
\* 200 with port 0 and the cycle ends at once, the file still healthy.
C21_Witness ==
  /\ CycleEnded /\ cycle = 2 /\ last_port_change = 1
  /\ Len(gwLog) = 1 /\ gwLog[1].status = 200 /\ gwLog[1].port = 0
  /\ outcome = "gw_fail" /\ ~healthy /\ qbitReqs = <<>>
  /\ health_file.exists /\ health_file.healthy

====
